---- MODULE Spec2Model ----
(***************************************************************************)
(* Model of pulumi-profile-selector: the JSON profile store               *)
(* (src/src/config.rs), the command dispatch of main and the shell        *)
(* command output (src/src/main.rs), and the picker (src/src/ui.rs).      *)
(*                                                                         *)
(* Strings are sequences of one-character strings, so that JSON escaping, *)
(* the substring tests on $SHELL and the exact (case-sensitive) comparison *)
(* of names are computed rather than assumed.  A file is the sequence of  *)
(* its JSON lexemes.  Filesystem calls are taken not to fail for reasons  *)
(* outside the program (permissions, a full disk), and each invocation    *)
(* carries one flag, with or without -c.                                  *)
(*                                                                         *)
(* One action is one run of the program from start to exit.  It leaves in *)
(* pre, inv and res what the run started from, was given and produced;    *)
(* process_exit clears them before the next run starts.                   *)
(***************************************************************************)
EXTENDS Integers, Sequences, FiniteSets, TLC

\* ---------------------------------------------------------------- bounds
MaxProfiles == 3

\* ------------------------------------------------------------ characters
QUOTE == "\""
BSLASH == "\\"
NEWLINE == "\n"

\* profile names a user may type: "a", "A" (differs from "a" only by case)
\* and a name made of one double quote (needs JSON escaping)
Names == { <<"a">>, <<"A">>, <<QUOTE>> }

\* backend URLs a user may type: "s" and backslash followed by n (two
\* characters, which JSON must not confuse with a newline)
Backends == { <<"s">>, <<BSLASH, "n">> }

\* values of $SHELL: "/bin/zsh", "/usr/bin/fish", "/usr/bin/nu"
Shells == { <<"/","b","i","n","/","z","s","h">>,
            <<"/","u","s","r","/","b","i","n","/","f","i","s","h">>,
            <<"/","u","s","r","/","b","i","n","/","n","u">> }

\* ------------------------------------------------------------ Profile
Profile(name, backend) == [name |-> name, backend |-> backend]

Profiles == { Profile(n, b) : n \in Names, b \in Backends }

RECURSIVE SeqsUpTo(_, _)
SeqsUpTo(S, n) ==
  IF n = 0 THEN { << >> }
  ELSE LET shorter == SeqsUpTo(S, n - 1)
       IN shorter \cup { Append(s, x) : s \in { t \in shorter : Len(t) = n - 1 }, x \in S }

DistinctNames(l) == \A i, j \in 1..Len(l) : l[i].name = l[j].name => i = j

\* ------------------------------------------------- serde_json: writing
\* A JSON text is modelled as the sequence of its lexemes, each lexeme a
\* string: the punctuation marks, and string literals with their quotes and
\* escapes.  The whitespace the pretty formatter puts between lexemes is
\* left out; the reader skips it.
Punct(c) == <<c>>

\* EscapeChar forgetting that a backslash must be escaped
EscapeChar_backslash_raw(c) ==
  IF c = QUOTE THEN <<BSLASH, QUOTE>>
  ELSE IF c = NEWLINE THEN <<BSLASH, "n">>
  ELSE <<c>>

\* one character of a string, as serde_json writes it between quotes
EscapeChar(c) ==
  IF c = QUOTE THEN <<BSLASH, QUOTE>>
  ELSE IF c = BSLASH THEN <<BSLASH, BSLASH>>
  ELSE IF c = NEWLINE THEN <<BSLASH, "n">>
  ELSE <<c>>

RECURSIVE EscapeStr(_)
EscapeStr(s) == IF s = << >> THEN << >> ELSE EscapeChar(Head(s)) \o EscapeStr(Tail(s))

JsonString(s) == <<QUOTE>> \o EscapeStr(s) \o <<QUOTE>>

KeyName == <<"n","a","m","e">>
KeyBackend == <<"b","a","c","k","e","n","d">>

\* a Profile as the derived Serialize writes it: name first, then backend
SerializeProfile(p) ==
  << Punct("{"),
     JsonString(KeyName), Punct(":"), JsonString(p.name), Punct(","),
     JsonString(KeyBackend), Punct(":"), JsonString(p.backend),
     Punct("}") >>

RECURSIVE SerializeItems(_)
SerializeItems(l) ==
  IF Len(l) = 1 THEN SerializeProfile(l[1])
  ELSE SerializeProfile(Head(l)) \o <<Punct(",")>> \o SerializeItems(Tail(l))

to_string_pretty(profiles) ==
  IF profiles = << >> THEN << Punct("["), Punct("]") >>
  ELSE <<Punct("[")>> \o SerializeItems(profiles) \o <<Punct("]")>>

\* ------------------------------------------------- serde_json: reading
EOF == << >>

At(s, i) == IF i >= 1 /\ i <= Len(s) THEN s[i] ELSE EOF

Fail == [ok |-> FALSE, pos |-> 0, val |-> << >>]

\* a parse result with one more value in front
Push(x, rest) == [ok |-> rest.ok, pos |-> rest.pos, val |-> <<x>> \o rest.val]

\* the characters of a string literal from position i of the lexeme on,
\* up to its closing quote, which must end the lexeme
RECURSIVE Unescape(_, _)
Unescape(lex, i) ==
  IF i > Len(lex) \/ lex[i] = NEWLINE THEN Fail
  ELSE IF lex[i] = QUOTE
    THEN [ok |-> i = Len(lex), pos |-> i, val |-> << >>]
  ELSE IF lex[i] = BSLASH
    THEN IF i + 1 > Len(lex) \/ lex[i + 1] \notin { QUOTE, BSLASH, "n" } THEN Fail
         ELSE Push(IF lex[i + 1] = "n" THEN NEWLINE ELSE lex[i + 1], Unescape(lex, i + 2))
  ELSE Push(lex[i], Unescape(lex, i + 1))

ParseString(lex) ==
  IF lex # << >> /\ lex[1] = QUOTE THEN Unescape(lex, 2) ELSE Fail

NoField == [set |-> FALSE, val |-> << >>]
SomeField(v) == [set |-> TRUE, val |-> v]

\* the fields of an object, starting at a key; the derived Deserialize
\* ignores unknown keys, rejects a repeated key and requires both fields
RECURSIVE ParseFields(_, _, _, _)
ParseFields(s, i, name, backend) ==
  LET Field(k, v) ==
        IF ~k.ok \/ At(s, i + 1) # Punct(":") \/ ~v.ok THEN Fail
        ELSE IF (k.val = KeyName /\ name.set) \/ (k.val = KeyBackend /\ backend.set) THEN Fail
        ELSE LET name2 == IF k.val = KeyName THEN SomeField(v.val) ELSE name
                 backend2 == IF k.val = KeyBackend THEN SomeField(v.val) ELSE backend
             IN IF At(s, i + 3) = Punct(",") THEN ParseFields(s, i + 4, name2, backend2)
                ELSE IF At(s, i + 3) = Punct("}") /\ name2.set /\ backend2.set
                  THEN [ok |-> TRUE, pos |-> i + 4, val |-> Profile(name2.val, backend2.val)]
                ELSE Fail
  IN Field(ParseString(At(s, i)), ParseString(At(s, i + 2)))

ParseProfile(s, i) ==
  IF At(s, i) # Punct("{") \/ At(s, i + 1) = Punct("}") THEN Fail
  ELSE ParseFields(s, i + 1, NoField, NoField)

RECURSIVE ParseItems(_, _)
ParseItems(s, i) ==
  LET Item(p) ==
        IF ~p.ok THEN Fail
        ELSE IF At(s, p.pos) = Punct("]")
          THEN [ok |-> TRUE, pos |-> p.pos + 1, val |-> <<p.val>>]
        ELSE IF At(s, p.pos) = Punct(",") THEN Push(p.val, ParseItems(s, p.pos + 1))
        ELSE Fail
  IN Item(ParseProfile(s, i))

\* serde_json::from_str::<Vec<Profile>>: the whole input must be one array
from_str(content) ==
  IF At(content, 1) # Punct("[") THEN Fail
  ELSE LET Whole(arr) == IF arr.ok /\ arr.pos = Len(content) + 1 THEN arr ELSE Fail
       IN Whole(IF At(content, 2) = Punct("]")
                THEN [ok |-> TRUE, pos |-> 3, val |-> << >>]
                ELSE ParseItems(content, 2))

\* ------------------------------------------------------------ filesystem
\* ~/.pulumi, ~/.pulumi/profiles.json and ~/.pulumi/current_profile
NoFile == [exists |-> FALSE, content |-> << >>]
File(content) == [exists |-> TRUE, content |-> content]

EmptyHome == [dir |-> FALSE, profiles |-> NoFile, current |-> NoFile]

\* std::fs::write of the marker, after create_dir_all of its parent
write_current_profile(f, name) == [f EXCEPT !.dir = TRUE, !.current = File(name)]

\* ------------------------------------------------------------ config.rs
save_pulumi_profiles(f, profiles) ==
  [f EXCEPT !.dir = TRUE, !.profiles = File(to_string_pretty(profiles))]

\* read_pulumi_profiles returning the empty list for a missing file
\* without creating it
read_pulumi_profiles_no_create(f) ==
  IF ~f.profiles.exists
  THEN [ok |-> TRUE, profiles |-> << >>, fs |-> f, saves |-> 0]
  ELSE LET Read(parsed) == [ok |-> parsed.ok, profiles |-> parsed.val, fs |-> f, saves |-> 0]
       IN Read(from_str(f.profiles.content))

\* result: ok, the list read, the filesystem afterwards, the number of saves
read_pulumi_profiles(f) ==
  IF ~f.profiles.exists
  THEN [ok |-> TRUE, profiles |-> << >>,
        fs |-> save_pulumi_profiles(f, << >>), saves |-> 1]
  ELSE LET Read(parsed) == [ok |-> parsed.ok, profiles |-> parsed.val, fs |-> f, saves |-> 0]
       IN Read(from_str(f.profiles.content))

HasName(profiles, name) == \E i \in 1..Len(profiles) : profiles[i].name = name

\* index of the first entry called name (iter().find); requires HasName
FindName(profiles, name) ==
  CHOOSE i \in 1..Len(profiles) :
    /\ profiles[i].name = name
    /\ \A j \in 1..(i - 1) : profiles[j].name # name

\* add_profile without the check for an existing name
add_profile_unchecked(f, name, backend) ==
  LET Add(r) ==
        IF ~r.ok THEN [err |-> "format", fs |-> r.fs, saves |-> r.saves]
        ELSE [err |-> "none",
              fs |-> save_pulumi_profiles(r.fs, Append(r.profiles, Profile(name, backend))),
              saves |-> r.saves + 1]
  IN Add(read_pulumi_profiles(f))

\* add_profile comparing names without regard to case
FoldCase(name) == [i \in DOMAIN name |-> IF name[i] = "A" THEN "a" ELSE name[i]]

add_profile_ignore_case(f, name, backend) ==
  LET Add(r) ==
        IF ~r.ok THEN [err |-> "format", fs |-> r.fs, saves |-> r.saves]
        ELSE IF \E i \in 1..Len(r.profiles) : FoldCase(r.profiles[i].name) = FoldCase(name)
          THEN [err |-> "duplicate", fs |-> r.fs, saves |-> r.saves]
        ELSE [err |-> "none",
              fs |-> save_pulumi_profiles(r.fs, Append(r.profiles, Profile(name, backend))),
              saves |-> r.saves + 1]
  IN Add(read_pulumi_profiles(f))

\* add_profile writing the list back before it looks for the name
add_profile_save_first(f, name, backend) ==
  LET Add(r) ==
        IF ~r.ok THEN [err |-> "format", fs |-> r.fs, saves |-> r.saves]
        ELSE IF HasName(r.profiles, name)
          THEN [err |-> "duplicate", fs |-> save_pulumi_profiles(r.fs, r.profiles),
                saves |-> r.saves + 1]
        ELSE [err |-> "none",
              fs |-> save_pulumi_profiles(r.fs, Append(r.profiles, Profile(name, backend))),
              saves |-> r.saves + 1]
  IN Add(read_pulumi_profiles(f))

add_profile(f, name, backend) ==
  LET Add(r) ==
        IF ~r.ok THEN [err |-> "format", fs |-> r.fs, saves |-> r.saves]
        ELSE IF HasName(r.profiles, name)
          THEN [err |-> "duplicate", fs |-> r.fs, saves |-> r.saves]
        ELSE [err |-> "none",
              fs |-> save_pulumi_profiles(r.fs, Append(r.profiles, Profile(name, backend))),
              saves |-> r.saves + 1]
  IN Add(read_pulumi_profiles(f))

\* edit_profile setting the backend of every entry
edit_profile_every(f, name, new_backend) ==
  LET Edit(r) ==
        IF ~r.ok THEN [err |-> "format", fs |-> r.fs, saves |-> r.saves]
        ELSE IF HasName(r.profiles, name)
          THEN [err |-> "none",
                fs |-> save_pulumi_profiles(r.fs,
                         [i \in DOMAIN r.profiles |-> Profile(r.profiles[i].name, new_backend)]),
                saves |-> r.saves + 1]
        ELSE [err |-> "notfound", fs |-> r.fs, saves |-> r.saves]
  IN Edit(read_pulumi_profiles(f))

edit_profile(f, name, new_backend) ==
  LET Edit(r) ==
        IF ~r.ok THEN [err |-> "format", fs |-> r.fs, saves |-> r.saves]
        ELSE IF HasName(r.profiles, name)
          THEN [err |-> "none",
                fs |-> save_pulumi_profiles(r.fs,
                         [r.profiles EXCEPT ![FindName(r.profiles, name)].backend = new_backend]),
                saves |-> r.saves + 1]
        ELSE [err |-> "notfound", fs |-> r.fs, saves |-> r.saves]
  IN Edit(read_pulumi_profiles(f))

Retain(profiles, name) ==
  LET Keep(p) == p.name # name IN SelectSeq(profiles, Keep)

\* delete_profile removing the entry as Vec::swap_remove does: the last
\* entry takes the place of the removed one
SwapRemove(profiles, i) ==
  IF i = Len(profiles) THEN SubSeq(profiles, 1, i - 1)
  ELSE SubSeq([profiles EXCEPT ![i] = profiles[Len(profiles)]], 1, Len(profiles) - 1)

delete_profile_swap_remove(f, name) ==
  LET Delete(r) ==
        IF ~r.ok THEN [err |-> "format", fs |-> r.fs, saves |-> r.saves]
        ELSE IF ~HasName(r.profiles, name)
          THEN [err |-> "notfound", fs |-> r.fs, saves |-> r.saves]
        ELSE [err |-> "none",
              fs |-> save_pulumi_profiles(r.fs, SwapRemove(r.profiles, FindName(r.profiles, name))),
              saves |-> r.saves + 1]
  IN Delete(read_pulumi_profiles(f))

delete_profile(f, name) ==
  LET Delete(r, retained) ==
        IF ~r.ok THEN [err |-> "format", fs |-> r.fs, saves |-> r.saves]
        ELSE IF Len(retained) = Len(r.profiles)
          THEN [err |-> "notfound", fs |-> r.fs, saves |-> r.saves]
        ELSE [err |-> "none", fs |-> save_pulumi_profiles(r.fs, retained),
              saves |-> r.saves + 1]
      Load(r) == Delete(r, Retain(r.profiles, name))
  IN Load(read_pulumi_profiles(f))

\* ------------------------------------------------------------ ui.rs
format_profile_display(p) == p.name \o <<" -> ">> \o p.backend

\* ProfileSelector::run once the user has chosen option number choice
\* (0: cancelled or interrupted): the name of the first profile whose
\* display string equals the chosen one
SelectorRun(profiles, choice) ==
  IF profiles = << >> \/ choice = 0 THEN NoField
  ELSE LET selected_display == format_profile_display(profiles[choice])
           hit == CHOOSE i \in 1..Len(profiles) :
                    /\ format_profile_display(profiles[i]) = selected_display
                    /\ \A j \in 1..(i - 1) :
                         format_profile_display(profiles[j]) # selected_display
       IN SomeField(profiles[hit].name)

\* ------------------------------------------------------------ main.rs
\* str::contains
Contains(s, sub) ==
  \E i \in 0..(Len(s) - Len(sub)) : SubSeq(s, i + 1, i + Len(sub)) = sub

IsNu(shell) == Contains(shell, <<"n","u">>) \/ Contains(shell, <<"n","u","s","h","e","l","l">>)
IsFish(shell) == Contains(shell, <<"f","i","s","h">>)

\* backend_url is an Option: NoField is None, SomeField(url) is Some(url)
print_shell_command_with_backend(shell, backend_url) ==
  IF backend_url.set
  THEN (IF IsNu(shell) THEN <<"$env.PULUMI_BACKEND_URL = ", QUOTE>>
        ELSE IF IsFish(shell) THEN <<"set -gx PULUMI_BACKEND_URL ", QUOTE>>
        ELSE <<"export PULUMI_BACKEND_URL=", QUOTE>>)
       \o backend_url.val \o <<QUOTE>>
  ELSE IF IsNu(shell) THEN <<"hide-env PULUMI_BACKEND_URL">>
       ELSE IF IsFish(shell) THEN <<"set -e PULUMI_BACKEND_URL">>
       ELSE <<"unset PULUMI_BACKEND_URL">>

\* print_shell_command printing the name it is given without looking it up
print_shell_command_name_only(f, shell, profile_name) ==
  [fs |-> f, saves |-> 0, out |-> print_shell_command_with_backend(shell, profile_name)]

\* result: the filesystem afterwards (the lookup may create the store),
\* what is printed, the number of saves
print_shell_command(f, shell, profile_name) ==
  IF profile_name.set
  THEN LET Lookup(r) ==
             [fs |-> r.fs, saves |-> r.saves,
              out |-> print_shell_command_with_backend(shell,
                        IF r.ok /\ HasName(r.profiles, profile_name.val)
                        THEN SomeField(r.profiles[FindName(r.profiles, profile_name.val)].backend)
                        ELSE profile_name)]
       IN Lookup(read_pulumi_profiles(f))
  ELSE [fs |-> f, saves |-> 0, out |-> print_shell_command_with_backend(shell, NoField)]

\* the --deactivate branch reporting success without removing the marker
deactivate_keep_marker(f, current_shell_mode, shell) ==
  IF current_shell_mode
  THEN print_shell_command(f, shell, NoField)
  ELSE [fs |-> f, saves |-> 0, out |-> << >>]

\* main, the --deactivate branch
deactivate(f, current_shell_mode, shell) ==
  IF current_shell_mode
  THEN print_shell_command(f, shell, NoField)
  ELSE IF f.current.exists
    THEN [fs |-> [f EXCEPT !.current = NoFile], saves |-> 0, out |-> << >>]
    ELSE [fs |-> f, saves |-> 0, out |-> << >>]

\* main, the --new branch
activate_new(f, profile_name, current_shell_mode, shell) ==
  IF current_shell_mode
  THEN print_shell_command(f, shell, SomeField(profile_name))
  ELSE [fs |-> write_current_profile(f, profile_name), saves |-> 0, out |-> << >>]

\* the activation writing the marker in shell mode as well
activate_writes_marker(f, profile_name, backend_url, current_shell_mode, shell) ==
  [fs |-> write_current_profile(f, profile_name),
   out |-> IF current_shell_mode
           THEN print_shell_command_with_backend(shell, SomeField(backend_url))
           ELSE << >>]

\* main, match selected_profile { Some((profile_name, backend_url)) => .. }
activate(f, profile_name, backend_url, current_shell_mode, shell) ==
  IF current_shell_mode
  THEN [fs |-> f, out |-> print_shell_command_with_backend(shell, SomeField(backend_url))]
  ELSE [fs |-> write_current_profile(f, profile_name), out |-> << >>]

\* ------------------------------------------------------------ state
VARIABLES
  fs,        \* the files under ~/.pulumi: dir, profiles (store), current (marker)
  pre,       \* fs as it was when the last invocation started
  inv,       \* the last invocation: flag, arguments, prompt answers, $SHELL
  res,       \* its outcome: exit code, error, stdout command, listing, saves
  hist,      \* the last file-mode marker operation that completed, and the first marker
  rtL,       \* round trip: the list handed to save_pulumi_profiles
  rtLoaded,  \* round trip: what read_pulumi_profiles returned afterwards
  rtpc       \* round trip: "off", "start", "saved", "loaded"

vars == <<fs, pre, inv, res, hist, rtL, rtLoaded, rtpc>>

rtvars == <<rtL, rtLoaded, rtpc>>

Invocation(op, name, backend, shellMode, shell, choice) ==
  [op |-> op, name |-> name, backend |-> backend,
   shellMode |-> shellMode, shell |-> shell, choice |-> choice]

Outcome(exit, err, out, listed, saves) ==
  [exit |-> exit, err |-> err, out |-> out, listed |-> listed, saves |-> saves]

ExitCode(err) == IF err = "none" THEN 0 ELSE 1

\* stores a user can have before the first invocation: none, or the file
\* the program writes for a list without repeated names
InitialLists == { l \in SeqsUpTo(Profiles, MaxProfiles) : DistinctNames(l) }

InitialHomes ==
  { EmptyHome }
  \cup { [dir |-> TRUE, profiles |-> p, current |-> c] :
           p \in { NoFile } \cup { File(to_string_pretty(l)) : l \in InitialLists },
           c \in { NoFile, File(<<"A">>) } }

NoInvocation == Invocation("none", << >>, << >>, FALSE, << >>, 0)
NoOutcome == Outcome(0, "none", << >>, << >>, 0)

Init ==
  /\ fs \in InitialHomes
  /\ pre = fs
  /\ inv = NoInvocation
  /\ res = NoOutcome
  /\ hist = [lastOp |-> "none", lastName |-> << >>, first |-> fs.current]
  /\ rtL = << >>
  /\ rtLoaded = [ok |-> FALSE, profiles |-> << >>]
  /\ rtpc = "off"

\* no invocation is running: the previous process has exited
Idle == rtpc = "off" /\ inv = NoInvocation

\* the store holds fewer than MaxProfiles entries (bounds the exploration)
RoomToAdd ==
  fs.profiles.exists => Len(from_str(fs.profiles.content).val) < MaxProfiles

\* --add, with the two prompt answers
main_add(name, backend) ==
  /\ Idle
  /\ RoomToAdd
  /\ \E r \in { add_profile(fs, name, backend) } :
       /\ fs' = r.fs
       /\ res' = Outcome(ExitCode(r.err), r.err, << >>, << >>, r.saves)
  /\ pre' = fs
  /\ inv' = Invocation("add", name, backend, FALSE, << >>, 0)
  /\ UNCHANGED <<hist, rtvars>>

\* --edit NAME, with the prompt answer
main_edit(name, new_backend) ==
  /\ Idle
  /\ \E r \in { edit_profile(fs, name, new_backend) } :
       /\ fs' = r.fs
       /\ res' = Outcome(ExitCode(r.err), r.err, << >>, << >>, r.saves)
  /\ pre' = fs
  /\ inv' = Invocation("edit", name, new_backend, FALSE, << >>, 0)
  /\ UNCHANGED <<hist, rtvars>>

\* --delete NAME
main_delete(name) ==
  /\ Idle
  /\ \E r \in { delete_profile(fs, name) } :
       /\ fs' = r.fs
       /\ res' = Outcome(ExitCode(r.err), r.err, << >>, << >>, r.saves)
  /\ pre' = fs
  /\ inv' = Invocation("delete", name, << >>, FALSE, << >>, 0)
  /\ UNCHANGED <<hist, rtvars>>

\* --list
main_list ==
  /\ Idle
  /\ \E r \in { read_pulumi_profiles(fs) } :
       /\ fs' = r.fs
       /\ res' = Outcome(IF r.ok THEN 0 ELSE 1, IF r.ok THEN "none" ELSE "format",
                         << >>, r.profiles, r.saves)
  /\ pre' = fs
  /\ inv' = Invocation("list", << >>, << >>, FALSE, << >>, 0)
  /\ UNCHANGED <<hist, rtvars>>

\* --deactivate, with or without -c
main_deactivate(current_shell_mode, shell) ==
  /\ Idle
  /\ \E r \in { deactivate(fs, current_shell_mode, shell) } :
       /\ fs' = r.fs
       /\ res' = Outcome(0, "none", r.out, << >>, r.saves)
  /\ pre' = fs
  /\ inv' = Invocation("deactivate", << >>, << >>, current_shell_mode, shell, 0)
  /\ hist' = IF current_shell_mode THEN hist
             ELSE [hist EXCEPT !.lastOp = "deactivate", !.lastName = << >>]
  /\ UNCHANGED rtvars

\* --new NAME, with or without -c
main_new(profile_name, current_shell_mode, shell) ==
  /\ Idle
  /\ \E r \in { activate_new(fs, profile_name, current_shell_mode, shell) } :
       /\ fs' = r.fs
       /\ res' = Outcome(0, "none", r.out, << >>, r.saves)
  /\ pre' = fs
  /\ inv' = Invocation("new", profile_name, << >>, current_shell_mode, shell, 0)
  /\ hist' = IF current_shell_mode THEN hist
             ELSE [hist EXCEPT !.lastOp = "activate", !.lastName = profile_name]
  /\ UNCHANGED rtvars

\* main from `let profiles = read_pulumi_profiles()?` on: selected is what
\* --activate or the picker chose out of the list read (an Option)
finish_activation(r, selected, current_shell_mode, shell) ==
  IF ~r.ok THEN [fs |-> r.fs, err |-> "format", out |-> << >>, name |-> << >>]
  ELSE IF r.profiles = << >>
    THEN [fs |-> r.fs, err |-> "noprofiles", out |-> << >>, name |-> << >>]
  ELSE IF ~selected.set
    THEN [fs |-> r.fs, err |-> selected.val, out |-> << >>, name |-> << >>]
  ELSE LET profile == r.profiles[FindName(r.profiles, selected.val)]
           Done(a) == [fs |-> a.fs, err |-> "none", out |-> a.out, name |-> profile.name]
       IN Done(activate(r.fs, profile.name, profile.backend, current_shell_mode, shell))

Activated(done, current_shell_mode) ==
  IF done.err = "none" /\ ~current_shell_mode
  THEN [hist EXCEPT !.lastOp = "activate", !.lastName = done.name]
  ELSE hist

\* --activate NAME, with or without -c
main_activate(profile_name, current_shell_mode, shell) ==
  /\ Idle
  /\ \E r \in { read_pulumi_profiles(fs) } :
     \E done \in { finish_activation(r,
                      IF HasName(r.profiles, profile_name)
                      THEN SomeField(profile_name)
                      ELSE [set |-> FALSE, val |-> "notfound"],
                      current_shell_mode, shell) } :
       /\ fs' = done.fs
       /\ res' = Outcome(ExitCode(done.err), done.err, done.out, << >>, r.saves)
       /\ hist' = Activated(done, current_shell_mode)
  /\ pre' = fs
  /\ inv' = Invocation("activate", profile_name, << >>, current_shell_mode, shell, 0)
  /\ UNCHANGED rtvars

\* no flag but possibly -c: the interactive picker; choice is the option the
\* user selects, 0 when the user cancels
main_select(choice, current_shell_mode, shell) ==
  /\ Idle
  /\ \E r \in { read_pulumi_profiles(fs) } :
     /\ choice <= Len(r.profiles)
     /\ \E picked \in { SelectorRun(r.profiles, choice) } :
        \E done \in { finish_activation(r,
                         IF picked.set /\ HasName(r.profiles, picked.val)
                         THEN picked
                         ELSE [set |-> FALSE, val |-> "noselection"],
                         current_shell_mode, shell) } :
       /\ fs' = done.fs
       /\ res' = Outcome(ExitCode(done.err), done.err, done.out, << >>, r.saves)
       /\ hist' = Activated(done, current_shell_mode)
  /\ pre' = fs
  /\ inv' = Invocation("select", << >>, << >>, current_shell_mode, shell, choice)
  /\ UNCHANGED rtvars

\* the process exits and the shell takes back control: what the finished
\* invocation showed is no longer there to look at
process_exit ==
  /\ rtpc = "off"
  /\ inv # NoInvocation
  /\ pre' = fs
  /\ inv' = NoInvocation
  /\ res' = NoOutcome
  /\ UNCHANGED <<fs, hist, rtvars>>

Next ==
  \/ process_exit
  \/ \E name \in Names, backend \in Backends : main_add(name, backend)
  \/ \E name \in Names, backend \in Backends : main_edit(name, backend)
  \/ \E name \in Names : main_delete(name)
  \/ main_list
  \/ \E mode \in BOOLEAN, shell \in Shells : main_deactivate(mode, shell)
  \/ \E name \in Names, mode \in BOOLEAN, shell \in Shells : main_new(name, mode, shell)
  \/ \E name \in Names, mode \in BOOLEAN, shell \in Shells : main_activate(name, mode, shell)
  \/ \E choice \in 0..MaxProfiles, mode \in BOOLEAN, shell \in Shells :
       main_select(choice, mode, shell)

Spec == Init /\ [][Next]_vars

\* ------------------------------------------------ save then load
\* save_pulumi_profiles(rtL) followed by read_pulumi_profiles(), for every
\* list of up to MaxProfiles profiles (repeated names included)
InitRT ==
  /\ fs \in { EmptyHome, save_pulumi_profiles(EmptyHome, << >>) }
  /\ pre = fs
  /\ inv = NoInvocation
  /\ res = NoOutcome
  /\ hist = [lastOp |-> "none", lastName |-> << >>, first |-> NoFile]
  /\ rtL \in SeqsUpTo(Profiles, MaxProfiles)
  /\ rtLoaded = [ok |-> FALSE, profiles |-> << >>]
  /\ rtpc = "start"

rt_save ==
  /\ rtpc = "start"
  /\ fs' = save_pulumi_profiles(fs, rtL)
  /\ rtpc' = "saved"
  /\ UNCHANGED <<pre, inv, res, hist, rtL, rtLoaded>>

rt_load ==
  /\ rtpc = "saved"
  /\ \E r \in { read_pulumi_profiles(fs) } :
       /\ fs' = r.fs
       /\ rtLoaded' = [ok |-> r.ok, profiles |-> r.profiles]
  /\ rtpc' = "loaded"
  /\ UNCHANGED <<pre, inv, res, hist, rtL>>

NextRT == rt_save \/ rt_load

SpecRT == InitRT /\ [][NextRT]_vars

\* ------------------------------------------------------------ properties
\* what read_pulumi_profiles returns for the store of filesystem f
Loaded(f) == IF f.profiles.exists THEN from_str(f.profiles.content).val ELSE << >>

Present(l, name) == \E i \in 1..Len(l) : l[i].name = name

\* the file save_pulumi_profiles writes for the empty list: []
EmptyArrayFile == File(<< <<"[">>, <<"]">> >>)

\* the value between the quotes of an export command
ExportedValue(out) == SubSeq(out, 3, Len(out) - 1)

IsExport(out) ==
  /\ Len(out) >= 3
  /\ out[1] \in { "export PULUMI_BACKEND_URL=", "set -gx PULUMI_BACKEND_URL ",
                  "$env.PULUMI_BACKEND_URL = " }
  /\ out[2] = QUOTE
  /\ out[Len(out)] = QUOTE

ShellActivation == inv.op \in { "activate", "new", "select" } /\ inv.shellMode

\* C1: whatever add_profile, edit_profile and delete_profile did, succeeding or
\* failing, the list in the store file never holds two profiles of one name.
C1_UniqueNames ==
  fs.profiles.exists =>
    LET stored == from_str(fs.profiles.content) IN
    /\ stored.ok
    /\ \A i, j \in 1..Len(stored.val) : stored.val[i].name = stored.val[j].name => i = j

C1_Witness ==
  /\ inv.op = "add"
  /\ res.err = "duplicate"
  /\ Len(Loaded(fs)) >= 2

\* C2: add_profile of a name the stored list L does not hold succeeds and the
\* store becomes L with the new profile at the end (the name then occurs once);
\* add_profile of a name L holds (compared exactly, case included) reports the
\* duplicate error and the store is still L.
C2_AddProfile ==
  inv.op = "add" =>
    LET L == Loaded(pre)
        after == Loaded(fs)
    IN IF ~Present(L, inv.name)
       THEN /\ res.exit = 0 /\ res.err = "none"
            /\ fs.profiles.exists
            /\ after = L \o << [name |-> inv.name, backend |-> inv.backend] >>
            /\ Cardinality({ i \in 1..Len(after) : after[i].name = inv.name }) = 1
       ELSE /\ res.exit = 1 /\ res.err = "duplicate"
            /\ fs.profiles = pre.profiles
            /\ after = L

C2_Witness ==
  /\ inv.op = "add"
  /\ inv.name = <<"a">>
  /\ Present(Loaded(pre), <<"A">>)
  /\ res.exit = 0

Edited(L, after, name, backend) ==
  /\ Len(after) = Len(L)
  /\ \A i \in 1..Len(L) :
       /\ after[i].name = L[i].name
       /\ after[i].backend = IF L[i].name = name THEN backend ELSE L[i].backend

\* C3 as stated: edit_profile of a stored name succeeds and changes that
\* entry's backend only; edit_profile of a name that is not stored reports
\* not-found and leaves the store file as it was (same existence, same contents).
C3_EditProfile_AsStated ==
  inv.op = "edit" =>
    IF Present(Loaded(pre), inv.name)
    THEN /\ res.exit = 0 /\ res.err = "none"
         /\ Edited(Loaded(pre), Loaded(fs), inv.name, inv.backend)
    ELSE /\ res.exit = 1 /\ res.err = "notfound"
         /\ fs.profiles = pre.profiles

\* C3 amended: as stated, except that edit_profile of a name that is not
\* stored leaves the store file as it was only when the file existed; when it
\* did not exist, the file is created holding the empty array.
C3_EditProfile ==
  inv.op = "edit" =>
    IF Present(Loaded(pre), inv.name)
    THEN /\ res.exit = 0 /\ res.err = "none"
         /\ Edited(Loaded(pre), Loaded(fs), inv.name, inv.backend)
    ELSE /\ res.exit = 1 /\ res.err = "notfound"
         /\ fs.profiles = IF pre.profiles.exists THEN pre.profiles ELSE EmptyArrayFile

C3_Witness ==
  /\ inv.op = "edit"
  /\ res.exit = 0
  /\ Len(Loaded(pre)) = 3
  /\ Loaded(pre)[2].name = inv.name
  /\ Loaded(pre)[2].backend # inv.backend
  /\ Loaded(pre)[1].backend # inv.backend

RemovedAt(L, i) == SubSeq(L, 1, i - 1) \o SubSeq(L, i + 1, Len(L))

\* C4 as stated: delete_profile of a stored name succeeds and removes exactly
\* that entry, the others keeping their order; delete_profile of a name that
\* is not stored reports not-found and neither rewrites nor creates the store
\* file.
C4_DeleteProfile_AsStated ==
  inv.op = "delete" =>
    IF Present(Loaded(pre), inv.name)
    THEN /\ res.exit = 0 /\ res.err = "none"
         /\ \E i \in 1..Len(Loaded(pre)) :
              /\ Loaded(pre)[i].name = inv.name
              /\ Loaded(fs) = RemovedAt(Loaded(pre), i)
    ELSE /\ res.exit = 1 /\ res.err = "notfound"
         /\ fs.profiles = pre.profiles

\* C4 amended: as stated, except that delete_profile of a name that is not
\* stored leaves the store file alone only when the file existed; when it did
\* not exist, the file is created holding the empty array.
C4_DeleteProfile ==
  inv.op = "delete" =>
    IF Present(Loaded(pre), inv.name)
    THEN /\ res.exit = 0 /\ res.err = "none"
         /\ \E i \in 1..Len(Loaded(pre)) :
              /\ Loaded(pre)[i].name = inv.name
              /\ Loaded(fs) = RemovedAt(Loaded(pre), i)
    ELSE /\ res.exit = 1 /\ res.err = "notfound"
         /\ fs.profiles = IF pre.profiles.exists THEN pre.profiles ELSE EmptyArrayFile

C4_Witness ==
  /\ inv.op = "delete"
  /\ res.exit = 0
  /\ Len(Loaded(pre)) = 3
  /\ Loaded(pre)[1].name = inv.name

\* C5 as stated: an add_profile invocation saves the store file exactly once
\* when it succeeds and not at all when it returns an error, whatever the
\* store file was, a missing file included.
C5_AddSaves_AsStated ==
  inv.op = "add" =>
    /\ res.exit = 0 => res.saves = 1
    /\ res.exit # 0 => res.saves = 0

\* C5 amended: on a store file that exists, add_profile saves exactly once
\* when it succeeds and not at all when it returns an error; on a missing
\* store file it succeeds with two saves, the first writing the empty list.
C5_AddSaves ==
  inv.op = "add" =>
    /\ res.exit = 0 => res.saves = (IF pre.profiles.exists THEN 1 ELSE 2)
    /\ res.exit # 0 => res.saves = 0 /\ pre.profiles.exists

C5_Witness ==
  /\ inv.op = "add"
  /\ ~pre.profiles.exists
  /\ res.exit = 0
  /\ Len(Loaded(fs)) = 1

\* C6: reading a missing store returns the empty list and leaves the file
\* existing with the empty array in it; reading (--list) an existing store
\* returns its entries in stored order and leaves the files unchanged.
C6_ReadProfiles ==
  inv.op = "list" =>
    /\ res.exit = 0
    /\ IF ~pre.profiles.exists
       THEN res.listed = << >> /\ fs.profiles = EmptyArrayFile
       ELSE to_string_pretty(res.listed) = pre.profiles.content /\ fs = pre

C6_Witness ==
  /\ inv.op = "list"
  /\ ~pre.profiles.exists
  /\ fs.profiles.exists

C8_ShellNoWrite_AsStated ==
  ShellActivation =>
    /\ fs.current = pre.current
    /\ fs.profiles = pre.profiles

\* C8 amended: an activation in shell mode never touches the marker, and
\* leaves a store file that exists as it was; a missing store file is created
\* holding the empty array, whether the invocation succeeds or exits with 1.
C8_ShellNoWrite ==
  ShellActivation =>
    /\ fs.current = pre.current
    /\ fs.profiles = IF pre.profiles.exists THEN pre.profiles ELSE EmptyArrayFile

C8_Witness ==
  /\ inv.op = "activate"
  /\ inv.shellMode
  /\ res.exit = 0
  /\ IsExport(res.out)
  /\ ~pre.current.exists

C10_RoundTrip ==
  rtpc = "loaded" =>
    /\ rtLoaded.ok
    /\ Len(rtLoaded.profiles) = Len(rtL)
    /\ \A i \in 1..Len(rtL) :
         /\ rtLoaded.profiles[i].name = rtL[i].name
         /\ rtLoaded.profiles[i].backend = rtL[i].backend

C10_Witness ==
  /\ rtpc = "loaded"
  /\ Len(rtL) = 3
  /\ rtL[1].name = <<QUOTE>>
  /\ rtL[2].backend = <<BSLASH, "n">>
  /\ rtL[3].name = rtL[1].name
  /\ rtLoaded.profiles = rtL

====
